---------------------------- MODULE Spec2Model ----------------------------
(***************************************************************************)
(* A model of cint (zinrai/cint): main.go's argument handling and exit     *)
(* code, validate.go's ValidateFiles pipeline and its diagnostic           *)
(* extraction (extractValidationErrors, formatPath).                       *)
(*                                                                         *)
(* Strings are sequences of characters (one-character TLA+ strings).  The  *)
(* fixed texts of the program's messages are kept whole, as one element of *)
(* such a sequence, so that a message is the concatenation of its literal  *)
(* parts and its arguments, as fmt.Sprintf builds it.                      *)
(***************************************************************************)
EXTENDS Integers, Sequences, FiniteSets, TLC

VARIABLES
    \* ---- one invocation of the program (main.go, ValidateFiles) ----
    parseOutcome,   \* what flag.Parse did with the command line
    showVersion,    \* --version
    schemaPath,     \* --schema
    configPaths,    \* --config, in order
    schemaFile,     \* what the schema path holds on disk
    fs,             \* the config files' states on disk, fixed once read
    pc,             \* the position of the program
    schema,         \* loadSchema's value
    results,        \* ValidateFiles' results so far
    reads,          \* the config paths os.ReadFile was called on, in order
    decodes,        \* the config paths a decoder was invoked on, in order
    lookups,        \* the config paths for which #Config was looked up
    stages,         \* per result, the stages validateFile went through, in order
    exitCode,       \* the process exit code, -1 while running
    entry,          \* "main": the program is run; "ValidateFiles": it is called
    \* ---- a second invocation over the same disk (isolation) ----
    configPaths2,
    results2,
    reads2,
    \* ---- formatPath as a pure function ----
    path,           \* the path segments given to formatPath
    parts,          \* the segments formatPath retained, trimmed
    field,          \* formatPath's result
    parts2,         \* the retained segments, filtered and trimmed again
    \* ---- extractValidationErrors as a pure function ----
    failure,        \* the error given to extractValidationErrors
    extracted       \* its result

runVars == <<parseOutcome, showVersion, schemaPath, configPaths, schemaFile, fs,
             pc, schema, results, reads, decodes, lookups, stages, exitCode, entry>>
isoVars == <<configPaths2, results2, reads2>>
pathVars == <<path, parts, field, parts2>>
extractVars == <<failure, extracted>>
vars == <<runVars, isoVars, pathVars, extractVars>>

-----------------------------------------------------------------------------
(* Bounds *)

MaxConfigs == 2     \* --config occurrences in one invocation
MaxSegLen == 3      \* characters in one path segment given to formatPath
MaxPathLen == 2     \* segments in one path given to formatPath
MaxViolations == 2  \* violations one validation failure decomposes into

-----------------------------------------------------------------------------
(* Strings *)

\* All strings over alphabet of length at most n.
RECURSIVE StringsUpTo(_, _)
StringsUpTo(alphabet, n) ==
    IF n = 0 THEN {<<>>}
    ELSE LET shorter == StringsUpTo(alphabet, n - 1)
         IN  shorter \cup {Append(s, c) : s \in shorter, c \in alphabet}

\* strings.HasPrefix
HasPrefix(s, prefix) ==
    /\ Len(s) >= Len(prefix)
    /\ SubSeq(s, 1, Len(prefix)) = prefix

\* strings.Contains
Contains(s, substr) ==
    \E i \in 1..(Len(s) - Len(substr) + 1) :
        SubSeq(s, i, i + Len(substr) - 1) = substr

\* strings.Trim(s, cutset) for a one-character cutset: all leading and all
\* trailing occurrences of c are removed.
RECURSIVE TrimLeft(_, _)
TrimLeft(s, c) ==
    IF s # <<>> /\ Head(s) = c THEN TrimLeft(Tail(s), c) ELSE s

RECURSIVE TrimRight(_, _)
TrimRight(s, c) ==
    IF s # <<>> /\ s[Len(s)] = c THEN TrimRight(SubSeq(s, 1, Len(s) - 1), c) ELSE s

Trim(s, c) == TrimRight(TrimLeft(s, c), c)

\* strings.Join(elems, sep)
RECURSIVE Join(_, _)
Join(elems, sep) ==
    IF elems = <<>> THEN <<>>
    ELSE IF Len(elems) = 1 THEN elems[1]
    ELSE elems[1] \o sep \o Join(Tail(elems), sep)

\* The components of a dot-joined field path; the empty field path (the root)
\* has none.
RECURSIVE SplitAcc(_, _, _)
SplitAcc(s, sep, cur) ==
    IF s = <<>> THEN <<cur>>
    ELSE IF Head(s) = sep THEN <<cur>> \o SplitAcc(Tail(s), sep, <<>>)
    ELSE SplitAcc(Tail(s), sep, Append(cur, Head(s)))

Components(fieldPath) ==
    IF fieldPath = <<>> THEN <<>> ELSE SplitAcc(fieldPath, ".", <<>>)

UpperChars == <<"A","B","C","D","E","F","G","H","I","J","K","L","M",
                "N","O","P","Q","R","S","T","U","V","W","X","Y","Z">>
LowerChars == <<"a","b","c","d","e","f","g","h","i","j","k","l","m",
                "n","o","p","q","r","s","t","u","v","w","x","y","z">>

\* The lower-case letter of each upper-case letter.
LowerOf ==
    [c \in {UpperChars[k] : k \in 1..Len(UpperChars)} |->
        LowerChars[CHOOSE k \in 1..Len(UpperChars) : UpperChars[k] = c]]

\* strings.ToLower
ToLower(s) ==
    [i \in 1..Len(s) |-> IF s[i] \in DOMAIN LowerOf THEN LowerOf[s[i]] ELSE s[i]]

\* filepath.Ext: the suffix beginning at the final dot in the final element of
\* the path; empty if there is no dot.
RECURSIVE ExtFrom(_, _)
ExtFrom(p, i) ==
    IF i = 0 \/ p[i] = "/" THEN <<>>
    ELSE IF p[i] = "." THEN SubSeq(p, i, Len(p))
    ELSE ExtFrom(p, i - 1)

Ext(p) == ExtFrom(p, Len(p))

-----------------------------------------------------------------------------
(* formatPath (validate.go) *)

Quote == "\""
RootDef == <<"#","C","o","n","f","i","g">>   \* "#Config"

\* isValidPathElement
isValidPathElement(p) ==
    /\ p # <<>>
    /\ ~HasPrefix(p, <<"[">>)
    /\ p # RootDef

\* The loop of formatPath: the retained segments, each trimmed of quotes.
RECURSIVE RetainedParts(_)
RetainedParts(segs) ==
    IF segs = <<>> THEN <<>>
    ELSE IF ~isValidPathElement(Head(segs)) THEN RetainedParts(Tail(segs))
    ELSE <<Trim(Head(segs), Quote)>> \o RetainedParts(Tail(segs))

formatPath(segs) == Join(RetainedParts(segs), <<".">>)

-----------------------------------------------------------------------------
(* Errors, as the CUE engine and the decoders hand them over *)

\* A Go error value: nil, or an error with its rendered text (Error()) and
\* the list errors.Errors decomposes it into.  One element of errs is a
\* cue/errors.Error: its positions' line numbers (errors.Positions), its
\* path (Path()) and its rendered text (Error()).
NoErr == [nil |-> TRUE, raw |-> <<>>, errs |-> <<>>]

PlainErr(text) == [nil |-> FALSE, raw |-> text, errs |-> <<>>]

\* fmt.Errorf("<prefix>%w", err) and fmt.Sprintf("<prefix>%v", err); the
\* prefix is given in its parts, e.g. <<"failed to read file", ": ">>.
Sprintf(prefix, err) == prefix \o err.raw

OsErr == PlainErr(<<"no such file or directory">>)
SyntaxErr == PlainErr(<<"syntax error">>)

-----------------------------------------------------------------------------
(* Diagnostic extraction (validate.go) *)

ValidationError(line, fieldPath, problem) ==
    [Line |-> line, Field |-> fieldPath, Problem |-> problem]

\* Mutant of extractLineNumber: the line of the first position, positive or
\* not.
extractLineNumberFirstPosition(e) ==
    IF e.positions = <<>> THEN 0 ELSE Head(e.positions)

\* extractLineNumber: the first positive line among the positions, else 0.
RECURSIVE extractLineNumber(_)
extractLineNumber(e) ==
    IF e.positions = <<>> THEN 0
    ELSE IF Head(e.positions) > 0 THEN Head(e.positions)
    ELSE extractLineNumber([e EXCEPT !.positions = Tail(e.positions)])

\* extractFieldPath
extractFieldPath(e) ==
    IF Len(e.path) = 0 THEN <<>> ELSE formatPath(e.path)

\* extractSingleError
extractSingleError(e) ==
    ValidationError(extractLineNumber(e), extractFieldPath(e), e.msg)

\* Mutant of extractValidationErrors: no fallback when the failure decomposes
\* into nothing.
extractValidationErrorsNoFallback(err) ==
    [i \in 1..Len(err.errs) |-> extractSingleError(err.errs[i])]

\* extractValidationErrors
extractValidationErrors(err) ==
    IF Len(err.errs) = 0
    THEN <<ValidationError(0, <<>>, err.raw)>>
    ELSE [i \in 1..Len(err.errs) |-> extractSingleError(err.errs[i])]

-----------------------------------------------------------------------------
(* Results (validate.go) *)

\* createErrorResult
createErrorResult(fileName, problem) ==
    [FileName |-> fileName, IsValid |-> FALSE,
     Errors |-> <<ValidationError(0, <<>>, problem)>>]

\* createValidationErrorResult
createValidationErrorResult(fileName, err) ==
    [FileName |-> fileName, IsValid |-> FALSE,
     Errors |-> extractValidationErrors(err)]

\* createSchemaErrorResults
createSchemaErrorResults(paths, err) ==
    LET errorMsg == Sprintf(<<"failed to load schema", ": ">>, err)
    IN  [i \in 1..Len(paths) |->
            [FileName |-> paths[i], IsValid |-> FALSE,
             Errors |-> <<ValidationError(0, <<>>, errorMsg)>>]]

-----------------------------------------------------------------------------
(* The disk *)

\* The config paths of the model.
AYaml == <<"a",".","y","a","m","l">>
BYml == <<"b",".","Y","M","L">>
CJson == <<"c",".","J","s","o","n">>
DToml == <<"d",".","T","O","M","L">>
ENoExt == <<"v",".","d","/","e">>
Paths == {AYaml, BYml, CJson, DToml, ENoExt}

SchemaCue == <<"s",".","c","u","e">>

\* What a schema path holds: nothing readable, text that does not compile,
\* a schema without #Config, a schema with #Config.
SchemaStates == {"unreadable", "malformed", "noConfig", "ok"}

\* One violation as the engine reports it.
Violation(positions, segs, msg) ==
    [positions |-> positions, path |-> segs, msg |-> msg]

Replicas == <<"r","e","p","l","i","c","a","s">>
Name == <<"n","a","m","e">>

\* Validation failures of the model: one that decomposes into nothing, one
\* with a single violation, one with two.
Fail0 == [nil |-> FALSE, raw |-> <<"validation failed">>, errs |-> <<>>]
Fail1 == [nil |-> FALSE, raw |-> <<"conflicting values">>,
          errs |-> <<Violation(<<4>>, <<Name>>, <<"conflicting values">>)>>]
Fail2 == [nil |-> FALSE, raw |-> <<"invalid value 0">>,
          errs |-> <<Violation(<<0, 7>>, <<RootDef, Replicas>>, <<"invalid value 0">>),
                     Violation(<<>>, <<RootDef, Name>>, <<"incomplete value">>)>>]

\* What a config path holds.  readable: os.ReadFile succeeds.  syntax: which
\* decoders accept the bytes ("none", "yaml": YAML only, "json": both).
\* build: the error of the built document value (config.Err()).  validate:
\* the error of unified.Validate against a schema that defines #Config.
File(readable, syntax, build, validate) ==
    [readable |-> readable, syntax |-> syntax, build |-> build, validate |-> validate]

FileStates ==
    { File(FALSE, "none", NoErr, NoErr),
      File(TRUE, "none", NoErr, NoErr),
      File(TRUE, "yaml", NoErr, NoErr),
      File(TRUE, "json", NoErr, NoErr),
      File(TRUE, "json", Fail1, NoErr),
      File(TRUE, "json", NoErr, Fail0),
      File(TRUE, "json", NoErr, Fail2) }

-----------------------------------------------------------------------------
(* ValidateFiles (validate.go) *)

\* Mutant of loadSchema: schema.Err() is not checked after CompileBytes.
loadSchemaNoCompileCheck(sf) ==
    IF sf = "unreadable"
    THEN [loaded |-> TRUE, hasConfig |-> FALSE,
          err |-> PlainErr(Sprintf(<<"reading schema file", ": ">>, OsErr))]
    ELSE [loaded |-> TRUE, hasConfig |-> (sf = "ok"), err |-> NoErr]

\* loadSchema: the compiled schema, or an error.
loadSchema(sf) ==
    IF sf = "unreadable"
    THEN [loaded |-> TRUE, hasConfig |-> FALSE,
          err |-> PlainErr(Sprintf(<<"reading schema file", ": ">>, OsErr))]
    ELSE IF sf = "malformed"
    THEN [loaded |-> TRUE, hasConfig |-> FALSE,
          err |-> PlainErr(Sprintf(<<"compiling schema", ": ">>, SyntaxErr))]
    ELSE [loaded |-> TRUE, hasConfig |-> (sf = "ok"), err |-> NoErr]

NotLoaded == [loaded |-> FALSE, hasConfig |-> FALSE, err |-> NoErr]

\* Mutant of parseYAML: the error of yaml.Extract is dropped.
parseYAMLErrorDropped(file) ==
    [decoder |-> "yaml", value |-> file.build, err |-> NoErr]

\* parseYAML: yaml.Extract, then ctx.BuildFile.
parseYAML(file) ==
    IF file.syntax = "none"
    THEN [decoder |-> "yaml", value |-> NoErr,
          err |-> PlainErr(Sprintf(<<"failed to parse YAML", ": ">>, SyntaxErr))]
    ELSE [decoder |-> "yaml", value |-> file.build, err |-> NoErr]

\* parseJSON: json.Extract, then ctx.BuildExpr.
parseJSON(file) ==
    IF file.syntax # "json"
    THEN [decoder |-> "json", value |-> NoErr,
          err |-> PlainErr(Sprintf(<<"failed to parse JSON", ": ">>, SyntaxErr))]
    ELSE [decoder |-> "json", value |-> file.build, err |-> NoErr]

DotYaml == <<".","y","a","m","l">>
DotYml == <<".","y","m","l">>
DotJson == <<".","j","s","o","n">>

\* "unsupported file format: %s (supported: .yaml, .yml, .json)"
UnsupportedFormat(ext) ==
    PlainErr(<<"unsupported file format", ": ">> \o ext \o <<" (supported: ">>
             \o DotYaml \o <<", ">> \o DotYml \o <<", ">> \o DotJson \o <<")">>)

\* Mutant of parseConfigFile: the extension is not lower-cased.
parseConfigFileCaseSensitive(configPath, file) ==
    LET ext == Ext(configPath)
    IN  IF ext = DotYaml \/ ext = DotYml THEN parseYAML(file)
        ELSE IF ext = DotJson THEN parseJSON(file)
        ELSE [decoder |-> "none", value |-> NoErr, err |-> UnsupportedFormat(ext)]

\* parseConfigFile: the decoder is chosen by the lower-cased extension.
parseConfigFile(configPath, file) ==
    LET ext == ToLower(Ext(configPath))
    IN  IF ext = DotYaml \/ ext = DotYml THEN parseYAML(file)
        ELSE IF ext = DotJson THEN parseJSON(file)
        ELSE [decoder |-> "none", value |-> NoErr, err |-> UnsupportedFormat(ext)]

\* Mutant of configDefExists: the looked-up definition is taken to exist.
configDefExistsAlways(sch) == TRUE

\* schema.LookupPath(cue.ParsePath("#Config")).Exists()
configDefExists(sch) == sch.hasConfig

MissingConfig == <<"schema does not define #Config">>

ValidResult(fileName) ==
    [FileName |-> fileName, IsValid |-> TRUE, Errors |-> <<>>]

\* The stages of validateFile: os.ReadFile, parseConfigFile with config.Err(),
\* LookupPath with Exists, Unify, Validate.
StageOrder == <<"read", "decode", "lookup", "unify", "validate">>

\* Mutant of validateFile: #Config is looked up before the file is read.
validateFileLookupFirst(sch, configPath, file) ==
    IF ~configDefExists(sch)
    THEN [result |-> createErrorResult(configPath, MissingConfig),
          decoder |-> "none", lookedUp |-> TRUE, stages |-> <<"lookup">>]
    ELSE IF ~file.readable
    THEN [result |-> createErrorResult(configPath,
                        Sprintf(<<"failed to read file", ": ">>, OsErr)),
          decoder |-> "none", lookedUp |-> TRUE, stages |-> <<"lookup", "read">>]
    ELSE LET parsed == parseConfigFile(configPath, file)
         IN  IF ~parsed.err.nil
             THEN [result |-> createErrorResult(configPath, parsed.err.raw),
                   decoder |-> parsed.decoder, lookedUp |-> TRUE,
                   stages |-> <<"lookup", "read", "decode">>]
             ELSE IF ~parsed.value.nil
             THEN [result |-> createValidationErrorResult(configPath, parsed.value),
                   decoder |-> parsed.decoder, lookedUp |-> TRUE,
                   stages |-> <<"lookup", "read", "decode">>]
             ELSE IF ~file.validate.nil
             THEN [result |-> createValidationErrorResult(configPath, file.validate),
                   decoder |-> parsed.decoder, lookedUp |-> TRUE,
                   stages |-> <<"lookup", "read", "decode", "unify", "validate">>]
             ELSE [result |-> ValidResult(configPath),
                   decoder |-> parsed.decoder, lookedUp |-> TRUE,
                   stages |-> <<"lookup", "read", "decode", "unify", "validate">>]

\* validateFile: the result for one config path, with what the call did on
\* the way (the decoder it invoked, whether it looked #Config up, the stages
\* it went through).
validateFile(sch, configPath, file) ==
    IF ~file.readable
    THEN [result |-> createErrorResult(configPath,
                        Sprintf(<<"failed to read file", ": ">>, OsErr)),
          decoder |-> "none", lookedUp |-> FALSE, stages |-> SubSeq(StageOrder, 1, 1)]
    ELSE LET parsed == parseConfigFile(configPath, file)
         IN  IF ~parsed.err.nil
             THEN [result |-> createErrorResult(configPath, parsed.err.raw),
                   decoder |-> parsed.decoder, lookedUp |-> FALSE,
                   stages |-> SubSeq(StageOrder, 1, 2)]
             ELSE IF ~parsed.value.nil
             THEN [result |-> createValidationErrorResult(configPath, parsed.value),
                   decoder |-> parsed.decoder, lookedUp |-> FALSE,
                   stages |-> SubSeq(StageOrder, 1, 2)]
             ELSE IF ~configDefExists(sch)
             THEN [result |-> createErrorResult(configPath, MissingConfig),
                   decoder |-> parsed.decoder, lookedUp |-> TRUE,
                   stages |-> SubSeq(StageOrder, 1, 3)]
             ELSE IF ~file.validate.nil
             THEN [result |-> createValidationErrorResult(configPath, file.validate),
                   decoder |-> parsed.decoder, lookedUp |-> TRUE,
                   stages |-> StageOrder]
             ELSE [result |-> ValidResult(configPath),
                   decoder |-> parsed.decoder, lookedUp |-> TRUE,
                   stages |-> StageOrder]

\* The states a config path may be found in when it is read: the one it was
\* found in before, if it was read before.
StatesOf(p) == IF p \in DOMAIN fs THEN {fs[p]} ELSE FileStates

\* Mutant of determineExitCode: only the last result decides.
determineExitCodeLastOnly(res) ==
    IF Len(res) > 0 /\ ~res[Len(res)].IsValid THEN 1 ELSE 0

\* determineExitCode (main.go)
determineExitCode(res) ==
    IF \E i \in 1..Len(res) : ~res[i].IsValid THEN 1 ELSE 0

\* validateArgs (main.go): TRUE when it returns an error.
validateArgs(sp, cps) == sp = <<>> \/ Len(cps) = 0

-----------------------------------------------------------------------------
(* Inputs *)

\* All sequences over S of length at most n.
RECURSIVE SeqsUpTo(_, _)
SeqsUpTo(S, n) ==
    IF n = 0 THEN {<<>>}
    ELSE LET shorter == SeqsUpTo(S, n - 1)
         IN  shorter \cup {Append(q, x) : q \in shorter, x \in S}

ConfigLists == SeqsUpTo(Paths, MaxConfigs)

\* Path segments: every string of quotes, brackets and a letter up to
\* MaxSegLen, and the root definition name bare, quoted and as a prefix.
SegAlphabet == {"a", Quote, "["}
Segments ==
    StringsUpTo(SegAlphabet, MaxSegLen)
        \cup {RootDef, <<Quote>> \o RootDef \o <<Quote>>, RootDef \o <<"a">>}
PathInputs == SeqsUpTo(Segments, MaxPathLen)

\* Validation failures given to extractValidationErrors.
PositionLists == {<<>>, <<0>>, <<3>>, <<0, 5>>, <<5, 3>>, <<0, 0>>}
ViolationPaths ==
    {<<>>, <<RootDef, Replicas>>, <<RootDef, <<"i">>, <<"[","0","]">>, Name>>}
Messages == {<<"conflicting values">>, <<"incomplete value">>}
Violations ==
    {Violation(ps, segs, msg) :
        ps \in PositionLists, segs \in ViolationPaths, msg \in Messages}
FailureInputs ==
    {[nil |-> FALSE, raw |-> <<"validation failed">>, errs |-> es] :
        es \in SeqsUpTo(Violations, MaxViolations)}

-----------------------------------------------------------------------------
(* One invocation *)

IdleRun ==
    /\ entry = "none" /\ parseOutcome = "ok" /\ showVersion = FALSE
    /\ schemaPath = <<>> /\ configPaths = <<>> /\ schemaFile = "unreadable"
    /\ fs = <<>> /\ schema = NotLoaded /\ results = <<>> /\ reads = <<>>
    /\ decodes = <<>> /\ lookups = <<>> /\ stages = <<>> /\ exitCode = -1
IdleIso == configPaths2 = <<>> /\ results2 = <<>> /\ reads2 = <<>>
IdlePath == path = <<>> /\ parts = <<>> /\ field = <<>> /\ parts2 = <<>>
IdleExtract == failure = NoErr /\ extracted = <<>>

\* The program is run with some command line (entry = "main"), or
\* ValidateFiles is called with some arguments, as the tests call it.
Init ==
    /\ entry \in {"main", "ValidateFiles"}
    /\ pc = entry
    /\ parseOutcome \in (IF entry = "main" THEN {"ok", "help", "error"} ELSE {"ok"})
    /\ showVersion \in (IF entry = "main" THEN BOOLEAN ELSE {FALSE})
    /\ schemaPath \in {<<>>, SchemaCue}
    /\ configPaths \in ConfigLists
    /\ schemaFile \in (IF schemaPath = <<>> THEN {"unreadable"} ELSE SchemaStates)
    /\ fs = <<>>
    /\ schema = NotLoaded
    /\ results = <<>>
    /\ reads = <<>>
    /\ decodes = <<>>
    /\ lookups = <<>>
    /\ stages = <<>>
    /\ exitCode = -1
    /\ IdleIso /\ IdlePath /\ IdleExtract

\* os.Exit(code)
ExitWith(code) ==
    /\ exitCode' = code
    /\ pc' = "exited"

\* main, up to the call of runValidation.  flag.Parse (the flag package's
\* CommandLine, ExitOnError) exits 2 on a command line it cannot parse and
\* 0 on -h/-help.
Main ==
    /\ pc = "main"
    /\ IF parseOutcome = "error" THEN ExitWith(2)
       ELSE IF parseOutcome = "help" THEN ExitWith(0)
       ELSE IF showVersion THEN ExitWith(0)
       ELSE IF validateArgs(schemaPath, configPaths) THEN ExitWith(1)
       ELSE pc' = "ValidateFiles" /\ exitCode' = exitCode
    /\ UNCHANGED <<parseOutcome, showVersion, schemaPath, configPaths, schemaFile,
                   fs, schema, results, reads, decodes, lookups, stages, entry>>
    /\ UNCHANGED <<isoVars, pathVars, extractVars>>

\* Mutant of AppendResult: once a file failed, the failure is carried into
\* the results of the files after it.
AppendResultSticky(res, v) ==
    IF res # <<>> /\ ~res[Len(res)].IsValid
    THEN Append(res, [v.result EXCEPT !.IsValid = FALSE,
                                      !.Errors = res[Len(res)].Errors])
    ELSE Append(res, v.result)

\* Mutant of AppendResult: the new result is put in front.
AppendResultInFront(res, v) == <<v.result>> \o res

\* results = append(results, result)
AppendResult(res, v) == Append(res, v.result)

\* ValidateFiles, its first part: load the schema; on an error return the
\* schema error results.
LoadSchema ==
    /\ pc = "ValidateFiles"
    /\ schema' = loadSchema(schemaFile)
    /\ IF ~schema'.err.nil
       THEN /\ results' = createSchemaErrorResults(configPaths, schema'.err)
            /\ pc' = "returned"
       ELSE /\ results' = <<>>
            /\ pc' = IF Len(configPaths) = 0 THEN "returned" ELSE "loop"
    /\ UNCHANGED <<parseOutcome, showVersion, schemaPath, configPaths, schemaFile,
                   fs, reads, decodes, lookups, stages, exitCode, entry>>
    /\ UNCHANGED <<isoVars, pathVars, extractVars>>

\* ValidateFiles, one iteration of its loop: validateFile on the next path.
ValidateFile ==
    /\ pc = "loop"
    /\ LET p == configPaths[Len(results) + 1]
       IN  \E st \in StatesOf(p) :
              LET v == validateFile(schema, p, st)
              IN  /\ fs' = (p :> st) @@ fs
                  /\ reads' = Append(reads, p)
                  /\ decodes' = IF v.decoder = "none" THEN decodes
                                ELSE Append(decodes, <<p, v.decoder>>)
                  /\ lookups' = IF v.lookedUp THEN Append(lookups, p) ELSE lookups
                  /\ stages' = Append(stages, v.stages)
                  /\ results' = AppendResult(results, v)
    /\ pc' = IF Len(results') = Len(configPaths) THEN "returned" ELSE "loop"
    /\ UNCHANGED <<parseOutcome, showVersion, schemaPath, configPaths, schemaFile,
                   schema, exitCode, entry>>
    /\ UNCHANGED <<isoVars, pathVars, extractVars>>

\* runValidation after ValidateFiles returned: os.Exit(determineExitCode(results))
Exit ==
    /\ pc = "returned"
    /\ entry = "main"
    /\ ExitWith(determineExitCode(results))
    /\ UNCHANGED <<parseOutcome, showVersion, schemaPath, configPaths, schemaFile,
                   fs, schema, results, reads, decodes, lookups, stages, entry>>
    /\ UNCHANGED <<isoVars, pathVars, extractVars>>

Next == Main \/ LoadSchema \/ ValidateFile \/ Exit

Spec == Init /\ [][Next]_vars

-----------------------------------------------------------------------------
(* Two invocations of ValidateFiles over the same schema and disk *)

IsoPaths == {AYaml, CJson}
IsoLists == SeqsUpTo(IsoPaths, MaxConfigs)

InitIso ==
    /\ entry = "ValidateFiles"
    /\ pc = "ValidateFiles"
    /\ parseOutcome = "ok"
    /\ showVersion = FALSE
    /\ schemaPath = SchemaCue
    /\ configPaths \in IsoLists
    /\ configPaths2 \in IsoLists
    /\ schemaFile \in SchemaStates
    /\ fs = <<>>
    /\ schema = NotLoaded
    /\ results = <<>> /\ results2 = <<>>
    /\ reads = <<>> /\ reads2 = <<>>
    /\ decodes = <<>>
    /\ lookups = <<>>
    /\ stages = <<>>
    /\ exitCode = -1
    /\ IdlePath /\ IdleExtract

\* The second call of ValidateFiles, its first part.
LoadSchema2 ==
    /\ pc = "returned"
    /\ entry = "ValidateFiles"
    /\ schema' = loadSchema(schemaFile)
    /\ IF ~schema'.err.nil
       THEN /\ results2' = createSchemaErrorResults(configPaths2, schema'.err)
            /\ pc' = "returned2"
       ELSE /\ results2' = <<>>
            /\ pc' = IF Len(configPaths2) = 0 THEN "returned2" ELSE "loop2"
    /\ UNCHANGED <<parseOutcome, showVersion, schemaPath, configPaths, schemaFile,
                   fs, results, reads, decodes, lookups, stages, exitCode, entry>>
    /\ UNCHANGED <<configPaths2, reads2, pathVars, extractVars>>

\* The second call of ValidateFiles, one iteration of its loop.
ValidateFile2 ==
    /\ pc = "loop2"
    /\ LET p == configPaths2[Len(results2) + 1]
       IN  \E st \in StatesOf(p) :
              LET v == validateFile(schema, p, st)
              IN  /\ fs' = (p :> st) @@ fs
                  /\ reads2' = Append(reads2, p)
                  /\ results2' = AppendResult(results2, v)
    /\ pc' = IF Len(results2') = Len(configPaths2) THEN "returned2" ELSE "loop2"
    /\ UNCHANGED <<parseOutcome, showVersion, schemaPath, configPaths, schemaFile,
                   schema, results, reads, decodes, lookups, stages, exitCode, entry>>
    /\ UNCHANGED <<configPaths2, pathVars, extractVars>>

NextIso == LoadSchema \/ ValidateFile \/ LoadSchema2 \/ ValidateFile2

SpecIso == InitIso /\ [][NextIso]_vars

-----------------------------------------------------------------------------
(* formatPath and extractValidationErrors on their own *)

InitPath ==
    /\ IdleRun /\ IdleIso /\ IdleExtract
    /\ pc = "formatPath"
    /\ path \in PathInputs
    /\ parts = <<>> /\ field = <<>> /\ parts2 = <<>>

\* formatPath(path)
FormatPath ==
    /\ pc = "formatPath"
    /\ parts' = RetainedParts(path)
    /\ field' = formatPath(path)
    /\ pc' = "formatted"
    /\ UNCHANGED <<parseOutcome, showVersion, schemaPath, configPaths, schemaFile,
                   fs, schema, results, reads, decodes, lookups, stages, exitCode, entry>>
    /\ UNCHANGED <<isoVars, extractVars, path, parts2>>

\* The filter-and-trim step of formatPath applied to the segments it retained.
Refilter ==
    /\ pc = "formatted"
    /\ parts2' = RetainedParts(parts)
    /\ pc' = "refiltered"
    /\ UNCHANGED <<parseOutcome, showVersion, schemaPath, configPaths, schemaFile,
                   fs, schema, results, reads, decodes, lookups, stages, exitCode, entry>>
    /\ UNCHANGED <<isoVars, extractVars, path, parts, field>>

NextPath == FormatPath \/ Refilter

SpecPath == InitPath /\ [][NextPath]_vars

InitExtract ==
    /\ IdleRun /\ IdleIso /\ IdlePath
    /\ pc = "extract"
    /\ failure \in FailureInputs
    /\ extracted = <<>>

\* extractValidationErrors(failure)
Extract ==
    /\ pc = "extract"
    /\ extracted' = extractValidationErrors(failure)
    /\ pc' = "extracted"
    /\ UNCHANGED <<parseOutcome, showVersion, schemaPath, configPaths, schemaFile,
                   fs, schema, results, reads, decodes, lookups, stages, exitCode, entry>>
    /\ UNCHANGED <<isoVars, pathVars, failure>>

NextExtract == Extract

SpecExtract == InitExtract /\ [][NextExtract]_vars

-----------------------------------------------------------------------------
(* Properties of one invocation (Spec) *)

\* ValidateFiles was called and has returned.
Returned == schema.loaded /\ pc \in {"returned", "exited"}

SchemaLoadFailed == schemaFile \in {"unreadable", "malformed"}

Supported(ext) == ext \in {DotYaml, DotYml, DotJson}

\* The one error of a result that carries a single error without position.
SingleError(r, problem) ==
    /\ ~r.IsValid
    /\ r.Errors = <<ValidationError(0, <<>>, problem)>>

\* The decoder for path p accepts what p holds on disk.
Decodes(p) ==
    LET ext == ToLower(Ext(p))
    IN  \/ ext \in {DotYaml, DotYml} /\ fs[p].syntax \in {"yaml", "json"}
        \/ ext = DotJson /\ fs[p].syntax = "json"

\* C1: ValidateFiles returns exactly len(configPaths) results and the i-th
\* result's FileName is the i-th config path, whatever the schema-load
\* outcome and with duplicates in the list; while it runs, the results so
\* far are those of the first paths, in order.
C1_OneResultPerPath ==
    /\ Len(results) <= Len(configPaths)
    /\ \A i \in 1..Len(results) : results[i].FileName = configPaths[i]
    /\ Returned => Len(results) = Len(configPaths)

C1_Witness ==
    /\ Returned
    /\ Len(configPaths) = 2
    /\ configPaths[1] = configPaths[2]
    /\ schemaFile = "ok"
    /\ Len(results) = 2

\* C2: every ValidationResult has IsValid = (len(Errors) = 0), on every path
\* that builds one.
C2_ValidIffNoErrors ==
    \A i \in 1..Len(results) :
        results[i].IsValid <=> (Len(results[i].Errors) = 0)

\* A valid result next to the result of a failure that decomposed into no
\* violation (the fallback of extractValidationErrors).
C2_Witness ==
    /\ Returned
    /\ \E i, j \in 1..Len(results) :
          /\ results[i].IsValid
          /\ fs[configPaths[j]].validate = Fail0
          /\ ~results[j].IsValid
          /\ Len(results[j].Errors) = 1

\* C3: if the schema cannot be read or does not compile, no config file is
\* read or decoded, and every requested file gets one invalid result with
\* exactly one error, of line 0 and empty field, whose message contains
\* "failed to load schema"; the results differ only in FileName.
C3_SchemaLoadFailure ==
    SchemaLoadFailed =>
        /\ reads = <<>> /\ decodes = <<>> /\ lookups = <<>> /\ fs = <<>>
        /\ Returned =>
              /\ Len(results) = Len(configPaths)
              /\ \A i \in 1..Len(results) :
                    /\ results[i].FileName = configPaths[i]
                    /\ ~results[i].IsValid
                    /\ Len(results[i].Errors) = 1
                    /\ results[i].Errors[1].Line = 0
                    /\ results[i].Errors[1].Field = <<>>
                    /\ Contains(results[i].Errors[1].Problem,
                                <<"failed to load schema">>)
              /\ \A i, j \in 1..Len(results) :
                    /\ results[i].IsValid = results[j].IsValid
                    /\ results[i].Errors = results[j].Errors

C3_Witness ==
    /\ Returned
    /\ schemaFile = "malformed"
    /\ Len(results) = 2
    /\ results[1].FileName # results[2].FileName

AllFilesGood ==
    /\ schemaFile = "ok"
    /\ \A i \in 1..Len(configPaths) :
          /\ configPaths[i] \in DOMAIN fs
          /\ fs[configPaths[i]].readable
          /\ Decodes(configPaths[i])
          /\ fs[configPaths[i]].build.nil
          /\ fs[configPaths[i]].validate.nil

Decoded(p) == \E k \in 1..Len(decodes) : decodes[k][1] = p

\* C7 as claimed (read for a schema that loaded): a config file whose lower-cased extension is not .yaml,
\* .yml or .json gets an invalid result with an "unsupported file format"
\* error naming the extension and the supported set, and no decoder is
\* invoked for it; an extension that differs from a supported one only in
\* letter case is routed to the corresponding decoder.
C7_Original ==
    (Returned /\ schema.err.nil) =>
        \A i \in 1..Len(results) :
            LET p == configPaths[i]
                ext == ToLower(Ext(p))
                problem == results[i].Errors[1].Problem
            IN  IF ~Supported(ext)
                THEN /\ ~results[i].IsValid
                     /\ Len(results[i].Errors) = 1
                     /\ Contains(problem, <<"unsupported file format">>)
                     /\ Contains(problem, ext)
                     /\ Contains(problem, DotYaml) /\ Contains(problem, DotYml)
                     /\ Contains(problem, DotJson)
                     /\ ~Decoded(p)
                ELSE \E k \in 1..Len(decodes) :
                        decodes[k] = <<p, IF ext = DotJson THEN "json" ELSE "yaml">>

\* C7 as amended: the same, for a file that is read, that is when the schema
\* loaded and the file is readable.
C7_UnsupportedFormat ==
    \A i \in 1..Len(results) :
        LET p == configPaths[i]
            ext == ToLower(Ext(p))
            problem == results[i].Errors[1].Problem
        IN  (schema.err.nil /\ fs[p].readable) =>
                IF ~Supported(ext)
                THEN /\ ~results[i].IsValid
                     /\ Len(results[i].Errors) = 1
                     /\ Contains(problem, <<"unsupported file format">>)
                     /\ Contains(problem, ext)
                     /\ Contains(problem, DotYaml) /\ Contains(problem, DotYml)
                     /\ Contains(problem, DotJson)
                     /\ ~Decoded(p)
                ELSE /\ \E k \in 1..Len(decodes) :
                           decodes[k] = <<p, IF ext = DotJson THEN "json" ELSE "yaml">>
                     /\ \A k \in 1..Len(decodes) :
                           decodes[k][1] = p =>
                               decodes[k][2] = IF ext = DotJson THEN "json" ELSE "yaml"
                     /\ \A e \in 1..Len(results[i].Errors) :
                           ~Contains(results[i].Errors[e].Problem,
                                     <<"unsupported file format">>)

\* b.YML went to the YAML decoder and d.TOML was refused as ".toml" with no
\* decoder invoked.
C7_Witness ==
    /\ Returned
    /\ configPaths = <<BYml, DToml>>
    /\ schema.err.nil
    /\ fs[BYml].readable /\ fs[DToml].readable
    /\ decodes = <<<<BYml, "yaml">>>>
    /\ Contains(results[2].Errors[1].Problem,
                <<"unsupported file format", ": ", ".", "t", "o", "m", "l">>)

-----------------------------------------------------------------------------
(* Isolation (SpecIso) *)

\* C5: for a fixed schema the result for a config path depends only on the
\* schema and on that file: the same file gets the same result in two calls
\* whose lists differ in their other files, and at every place of one list;
\* a failure of one file does not stop the files after it from being
\* processed.
C5_Isolation ==
    /\ \A i \in 1..Len(results), j \in 1..Len(results2) :
          configPaths[i] = configPaths2[j] => results[i] = results2[j]
    /\ \A i, j \in 1..Len(results) :
          configPaths[i] = configPaths[j] => results[i] = results[j]
    /\ \A i, j \in 1..Len(results2) :
          configPaths2[i] = configPaths2[j] => results2[i] = results2[j]
    /\ pc \in {"returned", "loop2", "returned2"} =>
          /\ Len(results) = Len(configPaths)
          /\ ~SchemaLoadFailed => reads = configPaths
    /\ pc = "returned2" =>
          /\ Len(results2) = Len(configPaths2)
          /\ ~SchemaLoadFailed => reads2 = configPaths2

\* The same valid file alone in the first call and after an unreadable file
\* in the second.
C5_Witness ==
    /\ pc = "returned2"
    /\ schemaFile = "ok"
    /\ configPaths = <<AYaml>>
    /\ configPaths2 = <<CJson, AYaml>>
    /\ ~fs[CJson].readable
    /\ results[1].IsValid
    /\ ~results2[1].IsValid
    /\ results2[2] = results[1]

-----------------------------------------------------------------------------
(* formatPath (SpecPath) *)

\* C8: the field path formatPath returns has no component that starts with
\* "[", none equal to #Config and no empty component, for every sequence of
\* segments, quoted ones included.
C8_Original ==
    pc \in {"formatted", "refiltered"} =>
        \A k \in 1..Len(Components(field)) :
            LET c == Components(field)[k]
            IN  /\ ~HasPrefix(c, <<"[">>)
                /\ c # RootDef
                /\ c # <<>>

\* C9: filtering is idempotent: the filter-and-trim step applied to the
\* retained segments yields the same segments, hence the same field path.
C9_Original ==
    pc = "refiltered" =>
        /\ parts2 = parts
        /\ Join(parts2, <<".">>) = field

-----------------------------------------------------------------------------
(* extractValidationErrors (SpecExtract) *)

\* C10: extractValidationErrors never returns an empty list: for a failure
\* that decomposes into n >= 1 violations it returns n errors, the i-th with
\* the i-th violation's first positive line (0 if it has none), its filtered
\* path and its message; for one that decomposes into none it returns one
\* error with line 0, empty field and the raw failure message.
C10_Extraction ==
    pc = "extracted" =>
        /\ extracted # <<>>
        /\ IF Len(failure.errs) >= 1
           THEN /\ Len(extracted) = Len(failure.errs)
                /\ \A i \in 1..Len(failure.errs) :
                      LET e == failure.errs[i]
                          line == extracted[i].Line
                      IN  /\ extracted[i].Problem = e.msg
                          /\ extracted[i].Field = formatPath(e.path)
                          /\ \/ \E k \in 1..Len(e.positions) :
                                   /\ e.positions[k] > 0
                                   /\ line = e.positions[k]
                                   /\ \A m \in 1..(k - 1) : e.positions[m] <= 0
                             \/ /\ line = 0
                                /\ \A k \in 1..Len(e.positions) : e.positions[k] <= 0
           ELSE extracted = <<ValidationError(0, <<>>, failure.raw)>>

\* Two violations: the first with positions of lines 0 and 5, the second
\* with no position.
C10_Witness ==
    /\ pc = "extracted"
    /\ Len(failure.errs) = 2
    /\ failure.errs[1].positions = <<0, 5>>
    /\ failure.errs[2].positions = <<>>
    /\ failure.errs[1].path = <<RootDef, Replicas>>
    /\ extracted[1].Line = 5 /\ extracted[2].Line = 0
    /\ extracted[1].Field = Replicas

-----------------------------------------------------------------------------
(* Decode failures (Spec) *)

\* The decoder chosen for p rejects the bytes of p (yaml.Extract or
\* json.Extract returns an error).
DecoderFails(p) ==
    /\ fs[p].readable
    /\ Supported(ToLower(Ext(p)))
    /\ ~Decodes(p)

\* The decoder accepts the bytes of p but the document built from them
\* carries an error (config.Err() # nil).
BuildFails(p) ==
    /\ fs[p].readable
    /\ Decodes(p)
    /\ ~fs[p].build.nil

\* A failure of one file leaves the loop running: every result so far comes
\* from a read, and on return every requested file was read.
RemainingFilesProcessed ==
    /\ Len(reads) = Len(results)
    /\ Returned => reads = configPaths /\ Len(results) = Len(configPaths)

\* C11 as claimed: with the schema loaded, every failure to turn a readable,
\* supported-format file's bytes into a document value (a decoder error or
\* an error of the built value, anything before #Config is looked up) gives
\* the file exactly one error, of line 0 and empty field, and the remaining
\* files are still processed.
C11_Original ==
    schema.err.nil =>
        /\ \A i \in 1..Len(results) :
              (DecoderFails(configPaths[i]) \/ BuildFails(configPaths[i])) =>
                  /\ ~results[i].IsValid
                  /\ Len(results[i].Errors) = 1
                  /\ results[i].Errors[1].Line = 0
                  /\ results[i].Errors[1].Field = <<>>
        /\ RemainingFilesProcessed

\* C11 as amended: a decoder error (malformed YAML or JSON) gives the file
\* exactly one error, of line 0 and empty field, with the decoder's message;
\* an error of the built document value is decomposed like a validation
\* failure, into one error per violation with that violation's line and
\* field path, or one error of line 0 and empty field if it decomposes
\* into none; in both cases the remaining files are still processed.
C11_DecodeFailure ==
    schema.err.nil =>
        /\ \A i \in 1..Len(results) :
              LET p == configPaths[i]
                  r == results[i]
              IN  /\ DecoderFails(p) =>
                        /\ ~r.IsValid
                        /\ Len(r.Errors) = 1
                        /\ r.Errors[1].Line = 0
                        /\ r.Errors[1].Field = <<>>
                        /\ \/ Contains(r.Errors[1].Problem, <<"failed to parse YAML">>)
                           \/ Contains(r.Errors[1].Problem, <<"failed to parse JSON">>)
                        /\ Contains(r.Errors[1].Problem, SyntaxErr.raw)
                  /\ BuildFails(p) =>
                        /\ ~r.IsValid
                        /\ IF fs[p].build.errs = <<>>
                           THEN r.Errors = <<ValidationError(0, <<>>, fs[p].build.raw)>>
                           ELSE /\ Len(r.Errors) = Len(fs[p].build.errs)
                                /\ \A k \in 1..Len(r.Errors) :
                                      r.Errors[k].Problem = fs[p].build.errs[k].msg
        /\ RemainingFilesProcessed

\* A malformed first file, then a second file that is read and found valid.
C11_Witness ==
    /\ Returned
    /\ schema.err.nil
    /\ Len(results) = 2
    /\ DecoderFails(configPaths[1])
    /\ Len(results[1].Errors) = 1
    /\ reads = configPaths
    /\ results[2].IsValid

-----------------------------------------------------------------------------
(* The stages of one file (Spec) *)

\* The errors of a result are those extracted from the failure err: one per
\* violation, or the single fallback error.
ErrorsFrom(r, err) ==
    /\ ~r.IsValid
    /\ IF err.errs = <<>>
       THEN r.Errors = <<ValidationError(0, <<>>, err.raw)>>
       ELSE /\ Len(r.Errors) = Len(err.errs)
            /\ \A k \in 1..Len(r.Errors) : r.Errors[k].Problem = err.errs[k].msg

\* C12: with the schema loaded, each file goes through the stages read,
\* decode, look up #Config, unify, validate in that order; the first stage
\* that fails ends the file with that stage's error ("failed to read file"
\* for the read stage), no later stage is attempted and none is repeated;
\* the result is valid with zero errors iff every stage succeeded.
C12_StagesInOrder ==
    schema.err.nil =>
        /\ Len(stages) = Len(results)
        /\ Len(reads) = Len(results)
        /\ \A i \in 1..Len(results) :
              LET p == configPaths[i]
                  f == fs[p]
                  r == results[i]
                  st == stages[i]
              IN  /\ reads[i] = p
                  /\ st = SubSeq(StageOrder, 1, Len(st))
                  /\ IF ~f.readable
                     THEN /\ st = <<"read">>
                          /\ ~r.IsValid /\ Len(r.Errors) = 1
                          /\ Contains(r.Errors[1].Problem, <<"failed to read file">>)
                     ELSE IF ~Supported(ToLower(Ext(p)))
                     THEN /\ st = <<"read", "decode">>
                          /\ ~r.IsValid /\ Len(r.Errors) = 1
                          /\ Contains(r.Errors[1].Problem, <<"unsupported file format">>)
                     ELSE IF ~Decodes(p)
                     THEN /\ st = <<"read", "decode">>
                          /\ ~r.IsValid /\ Len(r.Errors) = 1
                          /\ Contains(r.Errors[1].Problem, SyntaxErr.raw)
                     ELSE IF ~f.build.nil
                     THEN /\ st = <<"read", "decode">>
                          /\ ErrorsFrom(r, f.build)
                     ELSE IF schemaFile # "ok"
                     THEN /\ st = <<"read", "decode", "lookup">>
                          /\ SingleError(r, MissingConfig)
                     ELSE IF ~f.validate.nil
                     THEN /\ st = <<"read", "decode", "lookup", "unify", "validate">>
                          /\ ErrorsFrom(r, f.validate)
                     ELSE /\ st = <<"read", "decode", "lookup", "unify", "validate">>
                          /\ r.IsValid /\ r.Errors = <<>>
                  /\ (r.IsValid /\ r.Errors = <<>>)
                        <=> /\ f.readable
                            /\ Decodes(p)
                            /\ f.build.nil
                            /\ schemaFile = "ok"
                            /\ f.validate.nil
                  /\ (\E k \in 1..Len(lookups) : lookups[k] = p)
                        => (f.readable /\ Decodes(p) /\ f.build.nil)
                  /\ Decoded(p) => f.readable

\* One file that fails in the last stage and one that fails in the first.
C12_Witness ==
    /\ Returned
    /\ schemaFile = "ok"
    /\ Len(results) = 2
    /\ stages[1] = StageOrder /\ ~results[1].IsValid
    /\ stages[2] = <<"read">>
    /\ Contains(results[2].Errors[1].Problem, <<"failed to read file">>)

=============================================================================
